---------------------------- MODULE Spec2Model ----------------------------
(***************************************************************************)
(* Model of Kakoune's regex engine (src/src/regex_impl.cc): the recursive  *)
(* descent parser (RegexParser), the bytecode compiler (RegexCompiler) and *)
(* the threaded virtual machine (ThreadedRegexVM).                         *)
(*                                                                         *)
(* A pattern is a sequence of one-character strings; Ord gives the         *)
(* codepoint the utf8 iterator yields for each.  The bytecode is the byte  *)
(* vector the compiler emits: opcodes of one byte, offsets of OffsetSize   *)
(* bytes, codepoints in UTF-8.  The virtual machine is modelled one        *)
(* executed instruction at a time, so a call of step that never returns    *)
(* is a behaviour of the model and not a stuck evaluation.                 *)
(***************************************************************************)
EXTENDS Integers, Sequences, FiniteSets, TLC

(***************************************************************************)
(* Bounds of the model.                                                    *)
(***************************************************************************)
\* longest input drawn from InputAlphabet
MaxInputLen == 3
\* largest repetition count n, m of the counted family a{n,m}b
MaxCount == 3
\* length at which a growing thread list is abandoned
MaxThreads == 40

\* the longest input of two executions that share a program
MaxSharedLen == 1

\* the number of exec calls made on one VM
MaxCalls == 2

\* the most capture groups and the most character classes of a pattern
MaxGroups == 64
MaxClasses == 129

(***************************************************************************)
(* Codepoints.                                                             *)
(***************************************************************************)
\* the codepoint of a character; "grave" names the grave accent U+0060
Ord ==
    [c \in {"a", "b", "c", "d", "x", "_", " ", "\n", "0", "1", "2", "3",
            "4", "5", "6", "7", "8", "9", "^", "$", "\\", ".", "*", "+",
            "?", "(", ")", "[", "]", "{", "}", "|", ",", "-", "grave", "'",
            "D", "w", "W", "s", "S", "B", "f", "n", "r", "t", "v"} |->
        CASE c = "a" -> 97 [] c = "b" -> 98 [] c = "c" -> 99 [] c = "d" -> 100
          [] c = "x" -> 120 [] c = "_" -> 95 [] c = " " -> 32 [] c = "\n" -> 10
          [] c = "0" -> 48 [] c = "1" -> 49 [] c = "2" -> 50 [] c = "3" -> 51
          [] c = "4" -> 52 [] c = "5" -> 53 [] c = "6" -> 54 [] c = "7" -> 55
          [] c = "8" -> 56 [] c = "9" -> 57 [] c = "^" -> 94 [] c = "$" -> 36
          [] c = "\\" -> 92 [] c = "." -> 46 [] c = "*" -> 42 [] c = "+" -> 43
          [] c = "?" -> 63 [] c = "(" -> 40 [] c = ")" -> 41 [] c = "[" -> 91
          [] c = "]" -> 93 [] c = "{" -> 123 [] c = "}" -> 125 [] c = "|" -> 124
          [] c = "," -> 44 [] c = "-" -> 45 [] c = "grave" -> 96 [] c = "'" -> 39
          [] c = "D" -> 68 [] c = "w" -> 119 [] c = "W" -> 87 [] c = "s" -> 115
          [] c = "S" -> 83 [] c = "B" -> 66 [] c = "f" -> 102 [] c = "n" -> 110
          [] c = "r" -> 114 [] c = "t" -> 116 [] c = "v" -> 118]

\* the codepoints of a string of characters
Codepoints(str) == [k \in 1..Len(str) |-> Ord[str[k]]]

\* contains(StringView, Codepoint)
contains(str, cp) == \E k \in 1..Len(str) : Ord[str[k]] = cp

SyntaxCharacters ==
    <<"^", "$", ".", "*", "+", "?", "(", ")", "[", "]", "{", "}", "|">>

SyntaxCharactersEscaped ==
    <<"^", "$", "\\", ".", "*", "+", "?", "(", ")", "[", "]", "{", "}", "|">>

\* iswctype for the three properties the parser names, on the ASCII range
iswctype(cp, ctype) ==
    CASE ctype = "digit" -> cp \in 48..57
      [] ctype = "alnum" -> cp \in (48..57) \cup (65..90) \cup (97..122)
      [] ctype = "space" -> cp \in {32, 9, 10, 11, 12, 13}

\* is_word(Codepoint) of unicode.hh: a word character
is_word(cp) == iswctype(cp, "alnum") \/ cp = 95

(***************************************************************************)
(* Quantifier and AST.                                                     *)
(***************************************************************************)
Quantifier(type, min, max) == [type |-> type, min |-> min, max |-> max]

\* a default-constructed quantifier of the given type: min = max = -1
QuantifierOf(type) == Quantifier(type, -1, -1)

\* allows_none with "min <= 0" read as "min < 0"
allows_none_below_zero(q) ==
    \/ q.type = "Optional"
    \/ q.type = "RepeatZeroOrMore"
    \/ (q.type = "RepeatMinMax" /\ q.min < 0)

allows_none(q) ==
    \/ q.type = "Optional"
    \/ q.type = "RepeatZeroOrMore"
    \/ (q.type = "RepeatMinMax" /\ q.min <= 0)

allows_infinite_repeat(q) ==
    \/ q.type = "RepeatZeroOrMore"
    \/ q.type = "RepeatOneOrMore"
    \/ (q.type = "RepeatMinMax" /\ q.max = -1)

\* make_ast_node(op, value = -1, quantifier = {One})
make_ast_node(op, value) ==
    [op |-> op, value |-> value, quantifier |-> QuantifierOf("One"),
     children |-> <<>>]

\* the null AstNodePtr
NullNode == [op |-> "null"]

(***************************************************************************)
(* RegexParser.  The parser's members travel in a record: pos is m_pos as  *)
(* an offset into the pattern, capture_count and matchers are those of     *)
(* m_parsed_regex, error is the message of the runtime_error thrown (""    *)
(* when none was).  Every parsing function returns the record and the node *)
(* it produced.                                                            *)
(***************************************************************************)
NoError == ""

ParserInit == [pos |-> 0, capture_count |-> 1, matchers |-> <<>>, error |-> NoError]

Parsed(st, node) == [st |-> st, node |-> node]

parse_error(st, error) == Parsed([st EXCEPT !.error = error], NullNode)

at_end(re, st) == st.pos = Len(re)

\* *(m_pos + k); at the end of the pattern the terminating NUL of the literal
Peek(re, st, k) ==
    IF st.pos + k < Len(re) THEN Ord[re[st.pos + k + 1]] ELSE 0

Advance(st, k) == [st EXCEPT !.pos = @ + k]

assertion(re, st) ==
    IF at_end(re, st) THEN Parsed(st, NullNode)
    ELSE CASE Peek(re, st, 0) = Ord["^"] ->
                Parsed(Advance(st, 1), make_ast_node("LineStart", -1))
           [] Peek(re, st, 0) = Ord["$"] ->
                Parsed(Advance(st, 1), make_ast_node("LineEnd", -1))
           [] Peek(re, st, 0) = Ord["\\"] ->
                IF st.pos + 1 = Len(re) THEN Parsed(st, NullNode)
                ELSE CASE Peek(re, st, 1) = Ord["b"] ->
                            Parsed(Advance(st, 2), make_ast_node("WordBoundary", -1))
                       [] Peek(re, st, 1) = Ord["B"] ->
                            Parsed(Advance(st, 2), make_ast_node("NotWordBoundary", -1))
                       [] Peek(re, st, 1) = Ord["grave"] ->
                            Parsed(Advance(st, 2), make_ast_node("SubjectBegin", -1))
                       [] Peek(re, st, 1) = Ord["'"] ->
                            Parsed(Advance(st, 2), make_ast_node("SubjectEnd", -1))
                       [] OTHER -> Parsed(st, NullNode)
           [] OTHER -> Parsed(st, NullNode)

\* the table character_class_escapes, in its order
character_class_escapes ==
    << [cp |-> Ord["d"], ctype |-> "digit", additional_chars |-> <<>>, neg |-> FALSE],
       [cp |-> Ord["D"], ctype |-> "digit", additional_chars |-> <<>>, neg |-> TRUE],
       [cp |-> Ord["w"], ctype |-> "alnum", additional_chars |-> <<"_">>, neg |-> FALSE],
       [cp |-> Ord["W"], ctype |-> "alnum", additional_chars |-> <<"_">>, neg |-> TRUE],
       [cp |-> Ord["s"], ctype |-> "space", additional_chars |-> <<>>, neg |-> FALSE],
       [cp |-> Ord["s"], ctype |-> "space", additional_chars |-> <<>>, neg |-> TRUE] >>

control_escapes ==
    << [name |-> Ord["f"], value |-> 12], [name |-> Ord["n"], value |-> 10],
       [name |-> Ord["r"], value |-> 13], [name |-> Ord["t"], value |-> 9],
       [name |-> Ord["v"], value |-> 11] >>

\* the first index of seq whose element satisfies Test, 0 when there is none
FirstIndex(seq, Test(_)) ==
    IF \E k \in 1..Len(seq) : Test(seq[k])
    THEN CHOOSE k \in 1..Len(seq) :
            Test(seq[k]) /\ \A j \in 1..(k - 1) : ~Test(seq[j])
    ELSE 0

\* the closure atom_escape stores for a character class escape
EscapeMatcher(class) ==
    [kind |-> "escape", ctype |-> class.ctype, chars |-> class.additional_chars]

\* atom_escape, entered with m_pos just after the backslash
atom_escape(re, st) ==
    LET cp == Peek(re, st, 0)
        st1 == Advance(st, 1)
        IsClass(e) == e.cp = cp
        IsControl(e) == e.name = cp
        class == FirstIndex(character_class_escapes, IsClass)
        control == FirstIndex(control_escapes, IsControl)
    IN  IF class # 0
        THEN Parsed([st1 EXCEPT !.matchers =
                        Append(@, EscapeMatcher(character_class_escapes[class]))],
                    make_ast_node("Matcher", Len(st.matchers)))
        ELSE IF control # 0
        THEN Parsed(st1, make_ast_node("Literal", control_escapes[control].value))
        ELSE IF contains(SyntaxCharactersEscaped, cp)
        THEN Parsed(st1, make_ast_node("Literal", cp))
        ELSE parse_error(st1, "unknown atom escape")

\* the lambda read_int of quantifier: the value read and the position reached
RECURSIVE read_int(_, _, _, _)
read_int(re, pos, begin, res) ==
    IF pos = Len(re) THEN [value |-> res, pos |-> pos]
    ELSE LET cp == Ord[re[pos + 1]]
         IN  IF cp < Ord["0"] \/ cp > Ord["9"]
             THEN [value |-> IF pos = begin THEN -1 ELSE res, pos |-> pos]
             ELSE read_int(re, pos + 1, begin, res * 10 + cp - Ord["0"])

\* *it of quantifier; at the end of the pattern the terminating NUL
CharAt(re, pos) == IF pos < Len(re) THEN Ord[re[pos + 1]] ELSE 0

\* quantifier: the record and the Quantifier read (in the node field)
quantifier(re, st) ==
    IF at_end(re, st) THEN Parsed(st, QuantifierOf("One"))
    ELSE CASE Peek(re, st, 0) = Ord["*"] ->
                Parsed(Advance(st, 1), QuantifierOf("RepeatZeroOrMore"))
           [] Peek(re, st, 0) = Ord["+"] ->
                Parsed(Advance(st, 1), QuantifierOf("RepeatOneOrMore"))
           [] Peek(re, st, 0) = Ord["?"] ->
                Parsed(Advance(st, 1), QuantifierOf("Optional"))
           [] Peek(re, st, 0) = Ord["{"] ->
                LET it0 == st.pos + 1
                    rmin == read_int(re, it0, it0, 0)
                    min == rmin.value
                    hasComma == CharAt(re, rmin.pos) = Ord[","]
                    rmax == IF hasComma
                            THEN read_int(re, rmin.pos + 1, rmin.pos + 1, 0)
                            ELSE [value |-> min, pos |-> rmin.pos]
                IN  IF CharAt(re, rmax.pos) # Ord["}"]
                    THEN parse_error([st EXCEPT !.pos = rmax.pos + 1],
                                     "expected closing bracket")
                    ELSE Parsed([st EXCEPT !.pos = rmax.pos + 1],
                                Quantifier("RepeatMinMax", min, rmax.value))
           [] OTHER -> Parsed(st, QuantifierOf("One"))

\* the loop of character_class over the items of the class: the record, the
\* ranges and the ctypes collected when the loop is left
RECURSIVE ClassItems(_, _, _, _)
ClassItems(re, st, ranges, ctypes) ==
    IF at_end(re, st) \/ Peek(re, st, 0) = Ord["]"]
    THEN [st |-> st, ranges |-> ranges, ctypes |-> ctypes]
    ELSE LET cp == Peek(re, st, 0)
             st1 == Advance(st, 1)
             IsClass(e) == e.cp = Peek(re, st1, 0)
             class == IF cp = Ord["\\"]
                      THEN FirstIndex(character_class_escapes, IsClass) ELSE 0
             escape == character_class_escapes[class]
             singles == [k \in 1..Len(escape.additional_chars) |->
                            [min |-> Ord[escape.additional_chars[k]],
                             max |-> Ord[escape.additional_chars[k]]]]
         IN  IF cp = Ord["-"]
             THEN ClassItems(re, st1, Append(ranges, [min |-> cp, max |-> cp]), ctypes)
             ELSE IF at_end(re, st1)
             THEN [st |-> st1, ranges |-> ranges, ctypes |-> ctypes]
             ELSE IF class # 0
             THEN ClassItems(re, Advance(st1, 1), ranges \o singles,
                             Append(ctypes, [ctype |-> escape.ctype, sign |-> ~escape.neg]))
             ELSE IF Peek(re, st1, 0) = Ord["-"]
             THEN IF st1.pos + 1 = Len(re)
                  THEN [st |-> Advance(st1, 1), ranges |-> ranges, ctypes |-> ctypes]
                  ELSE IF cp > Peek(re, st1, 1)
                  THEN [st |-> [Advance(st1, 2) EXCEPT !.error = "invalid range specified"],
                        ranges |-> ranges, ctypes |-> ctypes]
                  ELSE ClassItems(re, Advance(st1, 2),
                                  Append(ranges, [min |-> cp, max |-> Peek(re, st1, 1)]),
                                  ctypes)
             ELSE ClassItems(re, st1, Append(ranges, [min |-> cp, max |-> cp]), ctypes)

\* character_class once its loop has collected the items
CharacterClassOf(re, items, negative) ==
    IF items.st.error # NoError THEN Parsed(items.st, NullNode)
    ELSE IF at_end(re, items.st)
    THEN parse_error(items.st, "unclosed character class")
    ELSE Parsed([Advance(items.st, 1) EXCEPT !.matchers =
                    Append(@, [kind |-> "class", ranges |-> items.ranges,
                               ctypes |-> items.ctypes, negative |-> negative])],
                make_ast_node("Matcher", Len(items.st.matchers)))

\* the loop of character_class, entered after the '^' of a negative class
CharacterClassItems(re, st, negative) ==
    CharacterClassOf(re, ClassItems(re, IF negative THEN Advance(st, 1) ELSE st, <<>>, <<>>),
                     negative)

\* character_class, entered with m_pos just after the opening bracket
character_class(re, st) ==
    CharacterClassItems(re, st, ~at_end(re, st) /\ Peek(re, st, 0) = Ord["^"])

\* the call of a stored matcher closure on a codepoint
MatcherAccepts(m, cp) ==
    IF m.kind = "escape"
    THEN iswctype(cp, m.ctype) \/ contains(m.chars, cp)
    ELSE LET found ==
                 \/ \E k \in 1..Len(m.ranges) :
                        m.ranges[k].min <= cp /\ cp <= m.ranges[k].max
                 \/ \E k \in 1..Len(m.ctypes) :
                        iswctype(cp, m.ctypes[k].ctype) = m.ctypes[k].sign
         IN  IF m.negative THEN ~found ELSE found

RECURSIVE disjunction(_, _, _)
RECURSIVE alternative(_, _)
RECURSIVE AlternativeTerms(_, _, _)
RECURSIVE term(_, _)
RECURSIVE atom(_, _)

\* disjunction once its right-hand side d is parsed
DisjunctionOf(a, d, capture) ==
    IF d.st.error # NoError THEN d
    ELSE Parsed(d.st, [make_ast_node("Alternation", capture)
                         EXCEPT !.children = <<a.node, d.node>>])

\* disjunction once its first alternative a is parsed
DisjunctionAfter(re, a, capture) ==
    IF a.st.error # NoError THEN a
    ELSE IF at_end(re, a.st) \/ Peek(re, a.st, 0) # Ord["|"]
    THEN Parsed(a.st, [a.node EXCEPT !.value = capture])
    ELSE DisjunctionOf(a, disjunction(re, Advance(a.st, 1), -1), capture)

\* disjunction(capture); the default argument is (unsigned)-1
disjunction(re, st, capture) == DisjunctionAfter(re, alternative(re, st), capture)

\* the body of the loop of alternative, once term() has returned t
AlternativeTermsAfter(re, t, children) ==
    IF t.st.error # NoError THEN t
    ELSE IF t.node = NullNode THEN Parsed(t.st, children)
    ELSE AlternativeTerms(re, t.st, Append(children, t.node))

\* the loop "while (auto node = term()) res->children.push_back(node)"
AlternativeTerms(re, st, children) == AlternativeTermsAfter(re, term(re, st), children)

\* alternative once its loop has collected the terms ts
AlternativeOf(ts) ==
    IF ts.st.error # NoError THEN ts
    ELSE IF ts.node = <<>> THEN parse_error(ts.st, "empty alternative")
    ELSE Parsed(ts.st, [make_ast_node("Sequence", -1) EXCEPT !.children = ts.node])

alternative(re, st) == AlternativeOf(AlternativeTerms(re, st, <<>>))

\* term once quantifier() has returned q for the atom at
TermQuantified(at, q) ==
    IF q.st.error # NoError THEN parse_error(q.st, q.st.error)
    ELSE Parsed(q.st, [at.node EXCEPT !.quantifier = q.node])

\* term once atom() has returned at
TermAfterAtom(re, at) ==
    IF at.st.error # NoError \/ at.node = NullNode THEN at
    ELSE TermQuantified(at, quantifier(re, at.st))

\* term once assertion() has returned as
TermAfterAssertion(re, st, as) ==
    IF as.node # NullNode THEN as ELSE TermAfterAtom(re, atom(re, st))

term(re, st) == TermAfterAssertion(re, st, assertion(re, st))

\* the case '(' of atom once disjunction() has returned content
AtomGroup(re, content) ==
    IF content.st.error # NoError THEN content
    ELSE IF at_end(re, content.st) \/ Peek(re, content.st, 0) # Ord[")"]
    THEN parse_error(content.st, "unclosed parenthesis")
    ELSE Parsed(Advance(content.st, 1), content.node)

\* the source's ++capture_count in place of capture_count++
AtomOfPreIncrement(re, st, cp) ==
    CASE cp = Ord["."] -> Parsed(Advance(st, 1), make_ast_node("AnyChar", -1))
      [] cp = Ord["("] ->
            AtomGroup(re, disjunction(re,
                              [st EXCEPT !.pos = @ + 1, !.capture_count = @ + 1],
                              st.capture_count + 1))
      [] cp = Ord["\\"] -> atom_escape(re, Advance(st, 1))
      [] cp = Ord["["] -> character_class(re, Advance(st, 1))
      [] OTHER ->
            IF contains(SyntaxCharacters, cp) THEN Parsed(st, NullNode)
            ELSE Parsed(Advance(st, 1), make_ast_node("Literal", cp))

\* the switch of atom on the codepoint cp at m_pos
AtomOf(re, st, cp) ==
    CASE cp = Ord["."] -> Parsed(Advance(st, 1), make_ast_node("AnyChar", -1))
      [] cp = Ord["("] ->
            AtomGroup(re, disjunction(re,
                              [st EXCEPT !.pos = @ + 1, !.capture_count = @ + 1],
                              st.capture_count))
      [] cp = Ord["\\"] -> atom_escape(re, Advance(st, 1))
      [] cp = Ord["["] -> character_class(re, Advance(st, 1))
      [] OTHER ->
            IF contains(SyntaxCharacters, cp) THEN Parsed(st, NullNode)
            ELSE Parsed(Advance(st, 1), make_ast_node("Literal", cp))

atom(re, st) ==
    IF at_end(re, st) THEN Parsed(st, NullNode) ELSE AtomOf(re, st, Peek(re, st, 0))

\* the ParsedRegex and the parser's final record, from what disjunction(0) returned
ParsedRegexOf(d) ==
    [ast |-> d.node, capture_count |-> d.st.capture_count,
     matchers |-> d.st.matchers, error |-> d.st.error, pos |-> d.st.pos]

\* RegexParser(re) followed by get_parsed_regex()
RegexParser(re) == ParsedRegexOf(disjunction(re, ParserInit, 0))

(***************************************************************************)
(* CompiledRegex and RegexCompiler.  The bytecode is a sequence of bytes;  *)
(* the byte at offset p is bytecode[p + 1].                                *)
(***************************************************************************)
Op_Match == 0
Op_Literal == 1
Op_AnyChar == 2
Op_Matcher == 3
Op_Jump == 4
Op_Split_PrioritizeParent == 5
Op_Split_PrioritizeChild == 6
Op_Save == 7
Op_LineStart == 8
Op_LineEnd == 9
Op_WordBoundary == 10
Op_NotWordBoundary == 11
Op_SubjectBegin == 12
Op_SubjectEnd == 13

\* sizeof(CompiledRegex::Offset)
OffsetSize == 4

\* a value stored into a char of the bytecode
Byte(v) == v % 256

\* a char of the bytecode read as a (signed) char
SignedChar(b) == IF b >= 128 THEN b - 256 ELSE b

push_back(bytecode, v) == Append(bytecode, Byte(v))

\* alloc_offset: the bytecode grown by one offset; the offset lies at the old size
alloc_offset(bytecode) == bytecode \o [k \in 1..OffsetSize |-> 0]

\* the bytes of an Offset in memory, least significant first
OffsetBytes(v) == [k \in 1..OffsetSize |-> (v \div (256 ^ (k - 1))) % 256]

\* get_offset(program, pos) = value
set_offset(bytecode, pos, value) ==
    SubSeq(bytecode, 1, pos) \o OffsetBytes(value)
        \o SubSeq(bytecode, pos + OffsetSize + 1, Len(bytecode))

\* the Offset read at pos
get_offset(bytecode, pos) ==
    bytecode[pos + 1] + 256 * bytecode[pos + 2]
        + 65536 * bytecode[pos + 3] + 16777216 * bytecode[pos + 4]

\* utf8::dump: the UTF-8 bytes of a codepoint
utf8_dump(cp) ==
    IF cp <= 127 THEN <<cp>>
    ELSE IF cp <= 2047 THEN <<192 + (cp \div 64), 128 + (cp % 64)>>
    ELSE IF cp <= 65535
    THEN <<224 + (cp \div 4096), 128 + ((cp \div 64) % 64), 128 + (cp % 64)>>
    ELSE <<240 + (cp \div 262144), 128 + ((cp \div 4096) % 64),
           128 + ((cp \div 64) % 64), 128 + (cp % 64)>>

\* utf8::read_codepoint at pos: the codepoint and the bytes it takes
utf8_read_codepoint(bytecode, pos) ==
    LET b0 == bytecode[pos + 1]
        Cont(k) == bytecode[pos + 1 + k] % 64
    IN  IF b0 < 128 THEN [cp |-> b0, size |-> 1]
        ELSE IF b0 < 224 THEN [cp |-> (b0 % 32) * 64 + Cont(1), size |-> 2]
        ELSE IF b0 < 240
        THEN [cp |-> (b0 % 16) * 4096 + Cont(1) * 64 + Cont(2), size |-> 3]
        ELSE [cp |-> (b0 % 8) * 262144 + Cont(1) * 4096 + Cont(2) * 64 + Cont(3),
              size |-> 4]

push_codepoint(bytecode, cp) == bytecode \o utf8_dump(cp)

\* every offset of the list set to value
RECURSIVE SetOffsets(_, _, _)
SetOffsets(bytecode, offsets, value) ==
    IF offsets = <<>> THEN bytecode
    ELSE SetOffsets(set_offset(bytecode, Head(offsets), value), Tail(offsets), value)

\* The compiler is a sequence of statements on program.bytecode.  Done(v, e)
\* is e once v has its value: TLC evaluates an operator's argument where it
\* is first used, and Done fixes the order of the statements.
Done(v, e) == IF v = v THEN e ELSE e

RECURSIVE compile_node(_, _)
RECURSIVE compile_node_inner(_, _)
RECURSIVE CompileChildren(_, _, _)
RECURSIVE CompileAlternation(_, _)
RECURSIVE CompileOp(_, _)
RECURSIVE CompileMinCopies(_, _, _, _)
RECURSIVE CompileOptionalCopies(_, _, _, _)

\* "for (auto& child : node->children) compile_node(program, parsed_regex, child)"
CompileChildren(bytecode, children, k) ==
    Done(bytecode,
         IF k > Len(children) THEN bytecode
         ELSE CompileChildren(compile_node(bytecode, children[k]), children, k + 1))

\* the Alternation case of compile_node_inner, entered with the bytecode written so far
CompileAlternation(bytecode, node) ==
    LET offset == Len(bytecode) + 1
        left == compile_node(
                    alloc_offset(push_back(bytecode, Op_Split_PrioritizeParent)),
                    node.children[1])
        goto_inner_end == Len(left) + 1
        right_pos == Len(left) + 1 + OffsetSize
        right == compile_node(alloc_offset(push_back(left, Op_Jump)), node.children[2])
    IN  Done(bytecode, Done(left, Done(right,
            set_offset(set_offset(right, offset, right_pos), goto_inner_end, Len(right)))))

\* the switch of compile_node_inner, entered with the bytecode written so far
CompileOp(bytecode, node) ==
    CASE node.op = "Literal" ->
            push_codepoint(push_back(bytecode, Op_Literal), node.value)
      [] node.op = "AnyChar" -> push_back(bytecode, Op_AnyChar)
      [] node.op = "Matcher" ->
            \* no break: control falls into the Sequence case
            CompileChildren(push_back(push_back(bytecode, Op_Matcher), node.value),
                            node.children, 1)
      [] node.op = "Sequence" -> CompileChildren(bytecode, node.children, 1)
      [] node.op = "Alternation" -> CompileAlternation(bytecode, node)
      [] node.op = "LineStart" -> push_back(bytecode, Op_LineStart)
      [] node.op = "LineEnd" -> push_back(bytecode, Op_LineEnd)
      [] node.op = "WordBoundary" -> push_back(bytecode, Op_WordBoundary)
      [] node.op = "NotWordBoundary" -> push_back(bytecode, Op_NotWordBoundary)
      [] node.op = "SubjectBegin" -> push_back(bytecode, Op_SubjectBegin)
      [] node.op = "SubjectEnd" -> push_back(bytecode, Op_SubjectEnd)

\* compile_node_inner without the Save that closes a capture
compile_node_inner_unclosed(bytecode, node) ==
    LET capture == IF node.op \in {"Alternation", "Sequence"} THEN node.value ELSE -1
        body == CompileOp(IF capture # -1
                          THEN push_back(push_back(bytecode, Op_Save), capture * 2)
                          ELSE bytecode, node)
    IN  Done(bytecode, Done(body, body))

\* compile_node_inner: the bytecode after the node was written at its end
compile_node_inner(bytecode, node) ==
    LET capture == IF node.op \in {"Alternation", "Sequence"} THEN node.value ELSE -1
        body == CompileOp(IF capture # -1
                          THEN push_back(push_back(bytecode, Op_Save), capture * 2)
                          ELSE bytecode, node)
    IN  Done(bytecode, Done(body,
            IF capture # -1
            THEN push_back(push_back(body, Op_Save), capture * 2 + 1)
            ELSE body))

\* "for (int i = 1; i < min; ++i) inner_pos = compile_node_inner(...)": the
\* bytecode and the start of the last copy written
CompileMinCopies(bytecode, node, i, inner_pos) ==
    Done(bytecode,
         IF i < node.quantifier.min
         THEN CompileMinCopies(compile_node_inner(bytecode, node), node, i + 1,
                               Len(bytecode))
         ELSE [bytecode |-> bytecode, inner_pos |-> inner_pos])

\* "for (int i = max(1, min); i < max; ++i)": the bytecode and goto_end_offsets
CompileOptionalCopies(bytecode, node, i, goto_end_offsets) ==
    Done(bytecode,
         IF i < node.quantifier.max
         THEN CompileOptionalCopies(
                  compile_node_inner(
                      alloc_offset(push_back(bytecode, Op_Split_PrioritizeParent)), node),
                  node, i + 1, Append(goto_end_offsets, Len(bytecode) + 1))
         ELSE [bytecode |-> bytecode, goto_end_offsets |-> goto_end_offsets])

\* compile_node: the bytecode after the quantified node was written at its end
compile_node(bytecode, node) ==
    LET q == node.quantifier
        none == IF allows_none(q)
                THEN alloc_offset(push_back(bytecode, Op_Split_PrioritizeParent))
                ELSE bytecode
        goto_end_none == IF allows_none(q) THEN <<Len(bytecode) + 1>> ELSE <<>>
        first == compile_node_inner(none, node)
        copies == CompileMinCopies(first, node, 1, Len(none))
        looped == set_offset(
                      alloc_offset(push_back(copies.bytecode, Op_Split_PrioritizeChild)),
                      Len(copies.bytecode) + 1, copies.inner_pos)
        optional == CompileOptionalCopies(copies.bytecode, node,
                                          IF q.min > 1 THEN q.min ELSE 1, goto_end_none)
    IN  Done(bytecode, Done(first, Done(copies,
            IF allows_infinite_repeat(q)
            THEN SetOffsets(looped, goto_end_none, Len(looped))
            ELSE SetOffsets(optional.bytecode, optional.goto_end_offsets,
                            Len(optional.bytecode)))))

prefix_size == 3 + 2 * OffsetSize

\* write_search_prefix with the last Split going back to offset 0
write_search_prefix_to_start ==
    LET split == set_offset(alloc_offset(push_back(<<>>, Op_Split_PrioritizeChild)),
                            1, prefix_size)
        any == push_back(split, Op_AnyChar)
        back == alloc_offset(push_back(any, Op_Split_PrioritizeParent))
    IN  set_offset(back, Len(any) + 1, 0)

\* write_search_prefix, on the empty bytecode
write_search_prefix ==
    LET split == set_offset(alloc_offset(push_back(<<>>, Op_Split_PrioritizeChild)),
                            1, prefix_size)
        any == push_back(split, Op_AnyChar)
        back == alloc_offset(push_back(any, Op_Split_PrioritizeParent))
    IN  set_offset(back, Len(any) + 1, 1 + OffsetSize)

\* compile(const ParsedRegex&)
compile(parsed_regex) ==
    [bytecode |-> push_back(compile_node(write_search_prefix, parsed_regex.ast), Op_Match),
     matchers |-> parsed_regex.matchers,
     save_count |-> parsed_regex.capture_count * 2]


\* compile(StringView re): the program, with the parser's error and final position
CompileParsed(parsed) ==
    IF parsed.error # NoError
    THEN [bytecode |-> <<>>, matchers |-> <<>>, save_count |-> 0,
          error |-> parsed.error]
    ELSE [bytecode |-> compile(parsed).bytecode, matchers |-> parsed.matchers,
          save_count |-> parsed.capture_count * 2, error |-> NoError]

CompileRegex(re) == CompileParsed(RegexParser(re))

(***************************************************************************)
(* The patterns and inputs the model runs.                                 *)
(***************************************************************************)
\* the decimal digit of n
Digit(n) == <<"0", "1", "2", "3", "4", "5", "6", "7", "8", "9">>[n + 1]

\* the patterns a{n,m}b, a{n}b, a{n,}b and a{,m}b
CountedMinMax(n, m) == <<"a", "{", Digit(n), ",", Digit(m), "}", "b">>

CountedExact(n) == <<"a", "{", Digit(n), "}", "b">>

CountedMin(n) == <<"a", "{", Digit(n), ",", "}", "b">>

CountedMax(m) == <<"a", "{", ",", Digit(m), "}", "b">>

\* the counted patterns with 0 <= n <= m and 1 <= m
CountedPatterns ==
    UNION {{CountedMinMax(n, m) : n \in 0..m} : m \in 1..MaxCount}
        \cup {CountedExact(n) : n \in 1..MaxCount}
        \cup {CountedMin(n) : n \in 0..MaxCount}
        \cup {CountedMax(m) : m \in 1..MaxCount}

\* a^k b
RECURSIVE Repeated(_, _)
Repeated(c, k) == IF k = 0 THEN <<>> ELSE <<c>> \o Repeated(c, k - 1)

CountedInputs == {Repeated("a", k) \o <<"b">> : k \in 0..(MaxCount + 2)}

\* an unbounded quantifier on a group that holds an optional or starred item
NullableLoops ==
    {<<"(", "a", "?", ")", "*">>,
       <<"(", "a", "*", ")", "*">>,
       <<"(", "a", "?", ")", "+">>,
       <<"(", "a", "|", "b", "*", ")", "*">> }

\* an unbounded quantifier on a group that holds only a zero-width assertion
AssertionLoops ==
    {<<"(", "^", ")", "*">>,
       <<"(", "^", ")", "+", "a">> }

\* the patterns of the catalogue, by what they hold
Catalogue ==
    \* literals, '.', alternation and the quantifiers *, +, ?
    {<<"a">>,
       <<"a", "b">>,
       <<".">>,
       <<"a", "|", "b">>,
       <<"a", "b", "|", "b">>,
       <<"a", "|", "b", "a", "a">>,
       <<"a", "*">>,
       <<"a", "+">>,
       <<"a", "?">>,
       <<"a", "*", "b">>,
       <<".", "*", "b">>,
       <<"a", ".", "|", "b">> }
    \* groups, under quantifiers and inside alternations
    \cup {<<"(", "a", ")">>,
       <<"(", "a", "|", "b", ")">>,
       <<"(", "a", ")", "?", "b">>,
       <<"(", "a", ")", "*">>,
       <<"(", "a", ")", "+", "b">>,
       <<"(", "a", "|", "b", ")", "*">>,
       <<"(", "a", "|", "b", ")", "+">>,
       <<"(", "a", "b", "|", "a", ")", "*">>,
       <<"(", "(", "a", ")", "|", "b", ")", "*">>,
       <<"(", "a", "(", "b", ")", "?", ")", "+">>,
       <<"(", "a", ")", "|", "(", "b", ")">>,
       <<"(", "a", "|", "(", "b", ")", ")", "+", "a">>,
       <<"a", "+", "(", "a", "|", "b", ")">>,
       <<"a", "*", "(", "a", "|", "b", ")", "b">>,
       <<"b", "?", "(", "b", "|", "a", ")", "b", "*">> }
    \* counted quantifiers on groups
    \cup {<<"(", "a", ")", "{", "2", "}">>,
       <<"(", "a", "|", "b", ")", "{", "1", ",", "2", "}">>,
       <<"(", "a", ")", "{", ",", "2", "}", "b">>,
       <<"(", "a", "b", ")", "{", "1", ",", "}">>,
       <<"(", "a", "?", ")", "{", "2", "}">> }
    \cup NullableLoops
    \cup AssertionLoops
    \* assertions and matchers
    \cup {<<"^", "a">>,
       <<"a", "$">>,
       <<"^", "a", ".", "*", "b", "$">>,
       <<"\\", "b", "a">>,
       <<"a", "\\", "B">>,
       <<"\\", "grave", "a">>,
       <<"a", "\\", "'">>,
       <<"\\", "w", "+">>,
       <<"[", "a", "b", "]", "+">>,
       <<"[", "^", "a", "]", "b">> }

\* the counted patterns whose greatest count is zero: a{0,0}b, a{0}b, a{,0}b
ZeroCountPatterns == {CountedMinMax(0, 0), CountedExact(0), CountedMax(0)}

\* the character-class escapes as atoms and as items of a character class
ClassEscapePatterns ==
    {<<"\\", "d">>,
       <<"\\", "D">>,
       <<"\\", "w">>,
       <<"\\", "W">>,
       <<"\\", "s">>,
       <<"\\", "S">>,
       <<"[", "\\", "s", "]">>,
       <<"[", "\\", "S", "]">>,
       <<"[", "\\", "D", "]">> }

\* patterns whose parentheses do not balance
UnbalancedPatterns ==
    {<<"a", ")", "b">>,
       <<"a", ")">>,
       <<")">>,
       <<"(", "a">>,
       <<"(", "a", ")", ")">>,
       <<"(", "(", "a", ")">> }

\* patterns in which some alternative has no term
EmptyAlternativePatterns ==
    {<< >>,
       <<"a", "|", "|", "b">>,
       <<"(", "|", ")">>,
       <<"(", ")">>,
       <<"|", "a">>,
       <<"a", "|">>,
       <<"(", "a", "|", ")">>,
       <<"a", ")", "|">> }

\* character classes with a '-' that forms no range: first, last, and after
\* a class escape
DashClassPatterns ==
    {<<"[", "-", "a", "]">>,
       <<"[", "a", "-", "]">>,
       <<"[", "\\", "d", "-", "a", "]">> }

\* patterns that are one character class: single codepoints, ranges, class
\* escapes, with and without the leading '^'
ClassPatterns ==
    {<<"[", "b", "-", "c", "]">>,
       <<"[", "^", "b", "-", "c", "_", "]">>,
       <<"[", "a", "0", "-", "1", "c", "-", "d", "]">>,
       <<"[", "\\", "w", "]">>,
       <<"[", "\\", "W", "]">>,
       <<"[", "^", "\\", "d", "a", "]">>,
       <<"[", "^", "\\", "D", "\\", "s", "]">>,
       <<"[", "\\", "s", "]">>,
       <<"[", "\\", "S", "]">>,
       <<"[", "\\", "D", "]">> }

\* patterns with a second quantifier or a stray closing bracket after a term
TrailingPatterns ==
    {<<"a", "*", "*">>,
       <<"a", "]", "b">>,
       <<"a", "}", "b">> }

Patterns ==
    Catalogue \cup CountedPatterns \cup ZeroCountPatterns \cup ClassEscapePatterns
        \cup UnbalancedPatterns \cup EmptyAlternativePatterns \cup TrailingPatterns
        \cup DashClassPatterns \cup ClassPatterns

InputAlphabet == {"a", "b"}

\* every string over InputAlphabet of at most n characters
RECURSIVE Strings(_)
Strings(n) ==
    IF n = 0 THEN {<<>>}
    ELSE Strings(n - 1) \cup {Append(str, c) : str \in Strings(n - 1), c \in InputAlphabet}

Inputs == Strings(MaxInputLen)

(***************************************************************************)
(* ThreadedRegexVM.                                                        *)
(***************************************************************************)
VARIABLES
    regex,        \* the pattern given to compile
    program,      \* m_program, the CompiledRegex
    data,         \* the input of exec
    match,        \* exec's parameter match
    longest,      \* exec's parameter longest
    m_threads,    \* sequence of [inst, saves], highest priority first
    m_pos,        \* offset of the current codepoint in data
    m_captures,
    found_match,
    thread_index, \* i of exec's loops, the argument of step
    pc,           \* where exec is
    result,       \* the value exec returned
    other,        \* a second ThreadedRegexVM bound to the same program
    calls,        \* how many times exec was called on this ThreadedRegexVM
    compiling     \* where compile(re) is, when it is followed statement by statement

vars == <<regex, program, data, match, longest, m_threads, m_pos, m_captures,
          found_match, thread_index, pc, result, other, calls, compiling>>

\* nullptr as an instruction pointer and as a saved position
NullInst == -1
NullPos == -1

m_begin == 0
m_end == Len(data)

Thread(inst, saves) == [inst |-> inst, saves |-> saves]

\* std::find_if(m_threads.begin(), m_threads.end(), t.inst == inst) != end
HoldsInst(threads, inst) == \E k \in 1..Len(threads) : threads[k].inst = inst

\* m_threads.insert(m_threads.begin() + index, thread)
InsertAt(threads, index, thread) ==
    SubSeq(threads, 1, index) \o <<thread>> \o SubSeq(threads, index + 1, Len(threads))

\* add_thread with m_threads.push_back in place of the insert at index
add_thread_back(threads, index, pos, saves) ==
    IF ~HoldsInst(threads, pos)
    THEN Append(threads, Thread(pos, saves))
    ELSE threads

add_thread(threads, index, pos, saves) ==
    IF ~HoldsInst(threads, pos)
    THEN InsertAt(threads, index, Thread(pos, saves))
    ELSE threads

\* the thread list of a model run is abandoned at MaxThreads threads
CanAdd(threads, pos) == HoldsInst(threads, pos) \/ Len(threads) < MaxThreads

\* the codepoint at offset pos of the input
CodepointAt(pos) == Ord[data[pos + 1]]

is_line_start == m_pos = m_begin \/ CodepointAt(m_pos - 1) = Ord["\n"]

is_line_end == m_pos = m_end \/ CodepointAt(m_pos) = Ord["\n"]

is_word_boundary ==
    \/ m_pos = m_begin
    \/ m_pos = m_end
    \/ is_word(CodepointAt(m_pos - 1)) # is_word(CodepointAt(m_pos))

\* the thread step runs, its instruction pointer and the opcode there
Current == m_threads[thread_index + 1]
Ip == Current.inst
Opcode == program.bytecode[Ip + 1]

\* step is running: exec is in its main loop or in its final loop
InStep == pc \in {"main", "sweep"}

\* m_threads with the instruction pointer of the running thread set
WithInst(inst) == [m_threads EXCEPT ![thread_index + 1].inst = inst]

\* step goes round its while loop with the thread list given
Continue(threads) ==
    /\ m_threads' = threads
    /\ UNCHANGED <<compiling, calls, other, regex, program, data, match, longest, m_pos, m_captures,
                   found_match, thread_index, pc, result>>

\* the loop header "++i; i < m_threads.size()" of the loop exec is in
NextThread(threads) ==
    /\ m_threads' = threads
    /\ thread_index' = thread_index + 1
    /\ pc' = IF thread_index + 1 < Len(threads) THEN pc
             ELSE IF pc = "main" THEN "main_end" ELSE "sweep_end"
    /\ UNCHANGED result

\* "m_captures = std::move(m_threads[i].saves); found_match = true;
\*  m_threads.resize(i); if (not longest) return true;"
TakeMatch(threads) ==
    /\ m_captures' = threads[thread_index + 1].saves
    /\ found_match' = TRUE
    /\ IF ~longest
       THEN /\ m_threads' = SubSeq(threads, 1, thread_index)
            /\ pc' = "done"
            /\ result' = TRUE
            /\ UNCHANGED thread_index
       ELSE NextThread(SubSeq(threads, 1, thread_index))

\* step returns res to exec with the thread list given: the rest of the body
\* of the loop exec is in, and the loop's header
Return(res, threads) ==
    /\ UNCHANGED <<compiling, calls, other, regex, program, data, match, longest, m_pos>>
    /\ IF res = "Matched" /\ (pc = "sweep" \/ ~match)
       THEN TakeMatch(threads)
       ELSE /\ UNCHANGED <<m_captures, found_match>>
            /\ IF res = "Failed" /\ pc = "main"
               THEN NextThread([threads EXCEPT ![thread_index + 1].inst = NullInst])
               ELSE NextThread(threads)

\* the members of a ThreadedRegexVM that has not run exec, and whether the
\* steps of the two VMs have been interleaved
\* compile(re) has returned
Compiled == [phase |-> "done"]

IdleVM ==
    [data |-> <<>>, match |-> TRUE, longest |-> FALSE, m_threads |-> <<>>, m_pos |-> 0,
     m_captures |-> <<>>, found_match |-> FALSE, thread_index |-> 0, pc |-> "idle",
     result |-> FALSE, calls |-> 0, interleaved |-> FALSE]

\* exec is between its call and its return
Running(at) == at \in {"main", "main_end", "sweep", "sweep_end"}

Init ==
    /\ regex \in Patterns
    /\ program = CompileRegex(regex)
    /\ data = <<>>
    /\ match = TRUE
    /\ longest = FALSE
    /\ m_threads = <<>>
    /\ m_pos = 0
    /\ m_captures = <<>>
    /\ found_match = FALSE
    /\ thread_index = 0
    /\ pc = "idle"
    /\ result = FALSE
    /\ other = IdleVM
    /\ calls = 0
    /\ compiling = Compiled

\* exec with its first thread at the search prefix whatever match is
ExecCallAtPrefix(d, m, l) ==
    /\ pc \in {"idle", "done"}
    /\ program.error = NoError
    /\ calls' = calls + 1
    /\ data' = d
    /\ match' = m
    /\ longest' = l
    /\ found_match' = FALSE
    /\ m_threads' = add_thread(<<>>, 0, 0, [k \in 1..program.save_count |-> NullPos])
    /\ m_pos' = 0
    /\ thread_index' = 0
    /\ pc' = IF Len(d) # 0 THEN "main" ELSE "sweep"
    /\ UNCHANGED <<compiling, other, regex, program, m_captures, result>>

\* exec that moves the matchers out of the program it is bound to
ExecCallTakingMatchers(d, m, l) ==
    /\ pc \in {"idle", "done"}
    /\ program.error = NoError
    /\ calls' = calls + 1
    /\ data' = d
    /\ match' = m
    /\ longest' = l
    /\ found_match' = FALSE
    /\ m_threads' = add_thread(<<>>, 0, IF m THEN prefix_size ELSE 0,
                               [k \in 1..program.save_count |-> NullPos])
    /\ m_pos' = 0
    /\ thread_index' = 0
    /\ pc' = IF Len(d) # 0 THEN "main" ELSE "sweep"
    /\ program' = [program EXCEPT !.matchers = <<>>]
    /\ UNCHANGED <<compiling, other, regex, m_captures, result>>

\* exec that adds its first thread to the threads the last call left
ExecCallKeepingThreads(d, m, l) ==
    /\ pc \in {"idle", "done"}
    /\ program.error = NoError
    /\ calls' = calls + 1
    /\ data' = d
    /\ match' = m
    /\ longest' = l
    /\ found_match' = FALSE
    /\ m_threads' = add_thread(m_threads, 0, IF m THEN prefix_size ELSE 0,
                               [k \in 1..program.save_count |-> NullPos])
    /\ m_pos' = 0
    /\ thread_index' = 0
    /\ pc' = IF Len(d) # 0 THEN "main" ELSE "sweep"
    /\ UNCHANGED <<compiling, other, regex, program, m_captures, result>>

\* exec(data, match, longest) up to the first call of step, on a VM that is
\* new or has returned from an earlier call
ExecCall(d, m, l) ==
    /\ pc \in {"idle", "done"}
    /\ program.error = NoError
    /\ calls' = calls + 1
    /\ data' = d
    /\ match' = m
    /\ longest' = l
    /\ found_match' = FALSE
    /\ m_threads' = add_thread(<<>>, 0, IF m THEN prefix_size ELSE 0,
                               [k \in 1..program.save_count |-> NullPos])
    /\ m_pos' = 0
    /\ thread_index' = 0
    /\ pc' = IF Len(d) # 0 THEN "main" ELSE "sweep"
    /\ UNCHANGED <<compiling, other, regex, program, m_captures, result>>

\* the first exec of a ThreadedRegexVM
Exec ==
    \E d \in Inputs \cup CountedInputs, m \in BOOLEAN, l \in BOOLEAN :
        pc = "idle" /\ ExecCall(d, m, l)

StepLiteral ==
    /\ InStep /\ Opcode = Op_Literal
    /\ LET cp == IF m_pos = m_end THEN 0 ELSE CodepointAt(m_pos)
           read == utf8_read_codepoint(program.bytecode, Ip + 1)
       IN  Return(IF read.cp = cp THEN "Consumed" ELSE "Failed",
                  WithInst(Ip + 1 + read.size))

StepAnyChar ==
    /\ InStep /\ Opcode = Op_AnyChar
    /\ Return("Consumed", WithInst(Ip + 1))

StepJump ==
    /\ InStep /\ Opcode = Op_Jump
    /\ LET inst == get_offset(program.bytecode, Ip + 1)
       IN  IF HoldsInst(WithInst(Ip + 1), inst)
           THEN Return("Failed", WithInst(Ip + 1))
           ELSE Continue(WithInst(inst))

StepSplitPrioritizeParent ==
    /\ InStep /\ Opcode = Op_Split_PrioritizeParent
    /\ LET target == get_offset(program.bytecode, Ip + 1)
           threads == WithInst(Ip + 1)
       IN  /\ CanAdd(threads, target)
           /\ Continue([add_thread(threads, thread_index + 1, target, Current.saves)
                          EXCEPT ![thread_index + 1].inst = Ip + 1 + OffsetSize])

StepSplitPrioritizeChild ==
    /\ InStep /\ Opcode = Op_Split_PrioritizeChild
    /\ LET threads == WithInst(Ip + 1)
       IN  /\ CanAdd(threads, Ip + 1 + OffsetSize)
           /\ Continue([add_thread(threads, thread_index + 1, Ip + 1 + OffsetSize,
                                   Current.saves)
                          EXCEPT ![thread_index + 1].inst =
                                     get_offset(program.bytecode, Ip + 1)])

\* "const char index = *thread.inst++; thread.saves[index] = m_pos.base();":
\* a store outside the vector is undefined, and the run is not followed further
\* Save that keeps the position a slot was first given
StepSaveFirst ==
    /\ InStep /\ Opcode = Op_Save
    /\ LET index == SignedChar(program.bytecode[Ip + 2])
       IN  IF index \in 0..(program.save_count - 1)
           THEN Continue([m_threads EXCEPT ![thread_index + 1] =
                             Thread(Ip + 2,
                                    IF Current.saves[index + 1] = NullPos
                                    THEN [Current.saves EXCEPT ![index + 1] = m_pos]
                                    ELSE Current.saves)])
           ELSE /\ pc' = "undefined"
                /\ UNCHANGED <<compiling, calls, other, regex, program, data, match, longest, m_threads, m_pos,
                               m_captures, found_match, thread_index, result>>

StepSave ==
    /\ InStep /\ Opcode = Op_Save
    /\ LET index == SignedChar(program.bytecode[Ip + 2])
       IN  IF index \in 0..(program.save_count - 1)
           THEN Continue([m_threads EXCEPT ![thread_index + 1] =
                             Thread(Ip + 2, [Current.saves EXCEPT ![index + 1] = m_pos])])
           ELSE /\ pc' = "undefined"
                /\ UNCHANGED <<compiling, calls, other, regex, program, data, match, longest, m_threads, m_pos,
                               m_captures, found_match, thread_index, result>>

\* at the end of the input *m_pos is the byte after the input; exec uses the
\* value step returns there only to tell Matched from the rest
StepMatcher ==
    /\ InStep /\ Opcode = Op_Matcher
    /\ LET matcher_id == SignedChar(program.bytecode[Ip + 2])
           cp == IF m_pos = m_end THEN 0 ELSE CodepointAt(m_pos)
       IN  IF matcher_id \in 0..(Len(program.matchers) - 1)
           THEN Return(IF MatcherAccepts(program.matchers[matcher_id + 1], cp)
                       THEN "Consumed" ELSE "Failed", WithInst(Ip + 2))
           ELSE /\ pc' = "undefined"
                /\ UNCHANGED <<compiling, calls, other, regex, program, data, match, longest, m_threads, m_pos,
                               m_captures, found_match, thread_index, result>>

\* an assertion opcode: step fails the thread or goes on to the next instruction
StepAssertion(holds) ==
    IF holds THEN Continue(WithInst(Ip + 1)) ELSE Return("Failed", WithInst(Ip + 1))

StepLineStart == InStep /\ Opcode = Op_LineStart /\ StepAssertion(is_line_start)

StepLineEnd == InStep /\ Opcode = Op_LineEnd /\ StepAssertion(is_line_end)

StepWordBoundary == InStep /\ Opcode = Op_WordBoundary /\ StepAssertion(is_word_boundary)

StepNotWordBoundary ==
    InStep /\ Opcode = Op_NotWordBoundary /\ StepAssertion(~is_word_boundary)

StepSubjectBegin == InStep /\ Opcode = Op_SubjectBegin /\ StepAssertion(m_pos = m_begin)

StepSubjectEnd == InStep /\ Opcode = Op_SubjectEnd /\ StepAssertion(m_pos = m_end)

StepMatch ==
    /\ InStep /\ Opcode = Op_Match
    /\ Return("Matched", WithInst(NullInst))

\* the end of the body of exec's loop over the input: dead threads are erased,
\* exec returns false on an empty list, else ++m_pos and the loop's header
EndRound ==
    /\ pc = "main_end"
    /\ LET alive == SelectSeq(m_threads, LAMBDA t : t.inst # NullInst)
       IN  /\ m_threads' = alive
           /\ IF alive = <<>>
              THEN /\ pc' = "done"
                   /\ result' = FALSE
                   /\ UNCHANGED <<m_pos, thread_index>>
              ELSE /\ m_pos' = m_pos + 1
                   /\ thread_index' = 0
                   /\ pc' = IF m_pos + 1 # m_end THEN "main" ELSE "sweep"
                   /\ UNCHANGED result
    /\ UNCHANGED <<compiling, calls, other, regex, program, data, match, longest, m_captures, found_match>>

\* "return found_match" after the final loop
EndSweep ==
    /\ pc = "sweep_end"
    /\ pc' = "done"
    /\ result' = found_match
    /\ UNCHANGED <<compiling, calls, other, regex, program, data, match, longest, m_threads, m_pos,
                   m_captures, found_match, thread_index>>

\* the scheduler passes from the VM that was running to the other one: each
\* VM keeps its own members, the program is the one thing they have in common
Switch ==
    /\ other' = [data |-> data, match |-> match, longest |-> longest,
                 m_threads |-> m_threads, m_pos |-> m_pos, m_captures |-> m_captures,
                 found_match |-> found_match, thread_index |-> thread_index,
                 pc |-> pc, result |-> result, calls |-> calls,
                 interleaved |-> other.interleaved \/ (Running(pc) /\ Running(other.pc))]
    /\ data' = other.data
    /\ match' = other.match
    /\ longest' = other.longest
    /\ m_threads' = other.m_threads
    /\ m_pos' = other.m_pos
    /\ m_captures' = other.m_captures
    /\ found_match' = other.found_match
    /\ thread_index' = other.thread_index
    /\ pc' = other.pc
    /\ result' = other.result
    /\ calls' = other.calls
    /\ UNCHANGED <<compiling, regex, program>>

Step ==
    \/ StepLiteral
    \/ StepAnyChar
    \/ StepJump
    \/ StepSplitPrioritizeParent
    \/ StepSplitPrioritizeChild
    \/ StepSave
    \/ StepMatcher
    \/ StepLineStart
    \/ StepLineEnd
    \/ StepWordBoundary
    \/ StepNotWordBoundary
    \/ StepSubjectBegin
    \/ StepSubjectEnd
    \/ StepMatch

Next == Exec \/ Step \/ EndRound \/ EndSweep

Spec == Init /\ [][Next]_vars

\* exec runs to completion on its caller's thread: a step that can be taken is
\* taken.  The patterns whose thread list the model abandons at MaxThreads are
\* left out: a run that is cut short there says nothing of how exec ends.
LiveInit == Init /\ regex \notin NullableLoops /\ program.error = NoError

LiveSpec == LiveInit /\ [][Next]_vars /\ WF_vars(Next)

\* two VMs bound to one program run exec with their steps interleaved in any
\* order, on a pattern for every opcode and on the inputs up to MaxSharedLen
SharedPatterns ==
    {<<"(", "a", "|", "b", ")", "+">>,
       <<"^", "a">>,
       <<"a", "$">>,
       <<"\\", "b", "a">>,
       <<"a", "\\", "B">>,
       <<"\\", "grave", "a">>,
       <<"a", "\\", "'">>,
       <<"[", "a", "b", "]", "+">> }

SharedInputs == Strings(MaxSharedLen)

ExecShared ==
    \E d \in SharedInputs, m \in BOOLEAN, l \in BOOLEAN :
        pc = "idle" /\ ExecCall(d, m, l)

SharedInit == Init /\ regex \in SharedPatterns

SharedNext == ExecShared \/ Step \/ EndRound \/ EndSweep \/ Switch

SharedSpec == SharedInit /\ [][SharedNext]_vars

\* one VM runs exec MaxCalls times, each call after the last has returned;
\* then a VM constructed on the same program runs exec
ReusePatterns == SharedPatterns

ExecAgain ==
    \E d \in SharedInputs, m \in BOOLEAN, l \in BOOLEAN :
        calls < MaxCalls /\ ExecCall(d, m, l)

Construct == pc = "done" /\ other.pc = "idle" /\ Switch

ReuseInit == Init /\ regex \in ReusePatterns

ReuseNext == ExecAgain \/ Step \/ EndRound \/ EndSweep \/ Construct

ReuseSpec == ReuseInit /\ [][ReuseNext]_vars

(***************************************************************************)
(* Patterns of many terms.  compile(re) is followed one statement at a     *)
(* time where its loops run once for each term of the pattern: the loop of *)
(* RegexParser::alternative and the loop over the children of the root     *)
(* node in compile_node_inner.  Each term is parsed by term and compiled   *)
(* by compile_node as everywhere else.                                     *)
(***************************************************************************)
\* n capture groups (a)(a)...(a)
GroupsPattern(n) ==
    [i \in 1..(3 * n) |-> IF i % 3 = 1 THEN "(" ELSE IF i % 3 = 2 THEN "a" ELSE ")"]

\* n character classes [a][a]...[a]
ClassesPattern(n) ==
    [i \in 1..(3 * n) |-> IF i % 3 = 1 THEN "[" ELSE IF i % 3 = 2 THEN "a" ELSE "]"]

OperandPatterns ==
    {GroupsPattern(n) : n \in 1..MaxGroups} \cup {ClassesPattern(n) : n \in 1..MaxClasses}

\* the CompiledRegex before compile has written it
EmptyProgram == [bytecode |-> <<>>, matchers |-> <<>>, save_count |-> 0, error |-> NoError]

\* RegexParser's constructor has called disjunction(0), which has called
\* alternative, which is about to call term for the first time
OperandInit ==
    /\ regex \in OperandPatterns
    /\ program = EmptyProgram
    /\ compiling = [phase |-> "alternative", st |-> ParserInit, children |-> <<>>]
    /\ data = <<>>
    /\ match = TRUE
    /\ longest = FALSE
    /\ m_threads = <<>>
    /\ m_pos = 0
    /\ m_captures = <<>>
    /\ found_match = FALSE
    /\ thread_index = 0
    /\ pc = "idle"
    /\ result = FALSE
    /\ other = IdleVM
    /\ calls = 0

\* one turn of "while (auto node = term()) res->children.push_back(node)"
ParseTerm ==
    /\ compiling.phase = "alternative"
    /\ LET t == term(regex, compiling.st)
       IN  /\ t.st.error = NoError /\ t.node # NullNode
           /\ compiling' = [compiling EXCEPT !.st = t.st, !.children = Append(@, t.node)]
    /\ UNCHANGED <<regex, program, data, match, longest, m_threads, m_pos, m_captures,
                   found_match, thread_index, pc, result, other, calls>>

\* term returns no node: alternative returns to disjunction(0), disjunction
\* to the constructor, and get_parsed_regex hands over the result
ParseEnd ==
    /\ compiling.phase = "alternative"
    /\ LET t == term(regex, compiling.st)
       IN  /\ t.st.error # NoError \/ t.node = NullNode
           /\ compiling' =
                  [phase |-> "parsed",
                   parsed |-> ParsedRegexOf(DisjunctionAfter(regex,
                                  AlternativeOf(AlternativeTermsAfter(regex, t,
                                                                      compiling.children)),
                                  0))]
    /\ UNCHANGED <<regex, program, data, match, longest, m_threads, m_pos, m_captures,
                   found_match, thread_index, pc, result, other, calls>>

\* compile: write_search_prefix, then compile_node on the root, a Sequence
\* quantified once, whose compile_node_inner writes the Save of capture 0
\* and enters the loop over the children
CompileBegin ==
    /\ compiling.phase = "parsed"
    /\ compiling.parsed.error = NoError
    /\ compiling.parsed.ast.op = "Sequence"
    /\ compiling.parsed.ast.quantifier = QuantifierOf("One")
    /\ compiling' =
           [phase |-> "children", parsed |-> compiling.parsed, k |-> 1,
            bytecode |-> push_back(push_back(write_search_prefix, Op_Save),
                                   compiling.parsed.ast.value * 2)]
    /\ UNCHANGED <<regex, program, data, match, longest, m_threads, m_pos, m_captures,
                   found_match, thread_index, pc, result, other, calls>>

\* one turn of "for (auto& child : node->children) compile_node(...)"
CompileChild ==
    /\ compiling.phase = "children"
    /\ compiling.k <= Len(compiling.parsed.ast.children)
    /\ compiling' =
           [compiling EXCEPT !.k = @ + 1,
                             !.bytecode = compile_node(@, compiling.parsed.ast.children[compiling.k])]
    /\ UNCHANGED <<regex, program, data, match, longest, m_threads, m_pos, m_captures,
                   found_match, thread_index, pc, result, other, calls>>

\* the loop is over: the Save that closes capture 0, then Match, and the
\* matchers and save_count of the ParsedRegex
CompileEnd ==
    /\ compiling.phase = "children"
    /\ compiling.k > Len(compiling.parsed.ast.children)
    /\ program' =
           [bytecode |-> push_back(push_back(push_back(compiling.bytecode, Op_Save),
                                             compiling.parsed.ast.value * 2 + 1),
                                   Op_Match),
            matchers |-> compiling.parsed.matchers,
            save_count |-> compiling.parsed.capture_count * 2,
            error |-> NoError]
    /\ compiling' = Compiled
    /\ UNCHANGED <<regex, data, match, longest, m_threads, m_pos, m_captures,
                   found_match, thread_index, pc, result, other, calls>>

\* exec(data, true, longest) on as many "a" as the pattern has terms
ExecOperand ==
    \E l \in BOOLEAN :
        /\ compiling = Compiled
        /\ pc = "idle"
        /\ ExecCall([i \in 1..(Len(regex) \div 3) |-> "a"], TRUE, l)

OperandNext ==
    \/ ParseTerm
    \/ ParseEnd
    \/ CompileBegin
    \/ CompileChild
    \/ CompileEnd
    \/ ExecOperand
    \/ StepLiteral
    \/ StepSave
    \/ StepMatcher
    \/ StepMatch
    \/ EndRound
    \/ EndSweep

OperandSpec == OperandInit /\ [][OperandNext]_vars

(***************************************************************************)
(* What a pattern matches, read off its syntax tree: the positions at      *)
(* which a match that begins at a position i of the input may end, and the *)
(* matches from i in the order of priority (the left alternative first,    *)
(* one more repetition first).  A quantifier stands for the repetition     *)
(* counts min..max, a missing min for 0 and a missing max for no limit.    *)
(***************************************************************************)
Ast == RegexParser(regex).ast

Matchers == RegexParser(regex).matchers

\* the smallest and the largest repetition count of a quantifier; Unbounded
\* for no largest
Unbounded == -1

LeastCount(q) ==
    CASE q.type = "One" -> 1
      [] q.type = "Optional" -> 0
      [] q.type = "RepeatZeroOrMore" -> 0
      [] q.type = "RepeatOneOrMore" -> 1
      [] q.type = "RepeatMinMax" -> IF q.min = -1 THEN 0 ELSE q.min

MostCount(q) ==
    CASE q.type = "One" -> 1
      [] q.type = "Optional" -> 1
      [] q.type = "RepeatZeroOrMore" -> Unbounded
      [] q.type = "RepeatOneOrMore" -> Unbounded
      [] q.type = "RepeatMinMax" -> q.max

\* the assertions at position i of the input
AssertionHolds(op, i) ==
    CASE op = "LineStart" -> i = 0 \/ CodepointAt(i - 1) = Ord["\n"]
      [] op = "LineEnd" -> i = Len(data) \/ CodepointAt(i) = Ord["\n"]
      [] op = "WordBoundary" ->
            \/ i = 0
            \/ i = Len(data)
            \/ is_word(CodepointAt(i - 1)) # is_word(CodepointAt(i))
      [] op = "NotWordBoundary" ->
            /\ i # 0
            /\ i # Len(data)
            /\ is_word(CodepointAt(i - 1)) = is_word(CodepointAt(i))
      [] op = "SubjectBegin" -> i = 0
      [] op = "SubjectEnd" -> i = Len(data)

\* a node that takes one codepoint takes the one at position i
TakesCodepoint(node, i) ==
    /\ i < Len(data)
    /\ CASE node.op = "Literal" -> CodepointAt(i) = node.value
         [] node.op = "AnyChar" -> TRUE
         [] node.op = "Matcher" -> MatcherAccepts(Matchers[node.value + 1], CodepointAt(i))

RECURSIVE Ends(_, _)
RECURSIVE EndsOnce(_, _)
RECURSIVE EndsSequence(_, _, _)
RECURSIVE EndsPower(_, _, _)
RECURSIVE EndsUpTo(_, _, _)
RECURSIVE EndsClosure(_, _)

\* where one instance of the node, its quantifier left aside, may end from i
EndsOnce(node, i) ==
    CASE node.op \in {"Literal", "AnyChar", "Matcher"} ->
            IF TakesCodepoint(node, i) THEN {i + 1} ELSE {}
      [] node.op = "Sequence" -> EndsSequence(node.children, 1, {i})
      [] node.op = "Alternation" ->
            Ends(node.children[1], i) \cup Ends(node.children[2], i)
      [] OTHER -> IF AssertionHolds(node.op, i) THEN {i} ELSE {}

EndsSequence(children, k, from) ==
    IF k > Len(children) THEN from
    ELSE EndsSequence(children, k + 1, UNION {Ends(children[k], j) : j \in from})

\* after exactly n instances, from the positions given
EndsPower(node, from, n) ==
    IF n = 0 THEN from
    ELSE EndsPower(node, UNION {EndsOnce(node, j) : j \in from}, n - 1)

\* after 0 to n instances
EndsUpTo(node, from, n) ==
    IF n < 0 THEN {}
    ELSE IF n = 0 THEN from
    ELSE from \cup EndsUpTo(node, UNION {EndsOnce(node, j) : j \in from}, n - 1)

\* after any number of instances
EndsClosure(node, from) ==
    LET more == from \cup UNION {EndsOnce(node, j) : j \in from}
    IN  IF more = from THEN from ELSE EndsClosure(node, more)

Ends(node, i) ==
    LET lo == LeastCount(node.quantifier)
        hi == MostCount(node.quantifier)
        least == EndsPower(node, {i}, lo)
    IN  IF hi = Unbounded THEN EndsClosure(node, least)
        ELSE EndsUpTo(node, least, hi - lo)

\* the whole of the input is in the language of the pattern
InLanguage == Len(data) \in Ends(Ast, 0)

\* the positions of the input at which a match begins
MatchStarts == {i \in 0..Len(data) : Ends(Ast, i) # {}}

Min(S) == CHOOSE x \in S : \A y \in S : x <= y

Max(S) == CHOOSE x \in S : \A y \in S : y <= x

\* a match in progress: where it has come to, and the slots it has set
Path(pos, saves) == [pos |-> pos, saves |-> saves]

RECURSIVE Paths(_, _, _)
RECURSIVE PathsOnce(_, _)
RECURSIVE PathsSequence(_, _, _)
RECURSIVE PathsRepeat(_, _, _)
RECURSIVE PathsOfAll(_, _, _, _)

\* the matches of one instance of the node from the path given, by priority
PathsOnce(node, from) ==
    LET capture == IF node.op \in {"Alternation", "Sequence"} THEN node.value ELSE -1
        opened == IF capture = -1 THEN from
                  ELSE Path(from.pos, [from.saves EXCEPT ![2 * capture + 1] = from.pos])
        inner ==
            CASE node.op \in {"Literal", "AnyChar", "Matcher"} ->
                    IF TakesCodepoint(node, from.pos)
                    THEN <<Path(from.pos + 1, from.saves)>> ELSE <<>>
              [] node.op = "Sequence" -> PathsSequence(node.children, 1, <<opened>>)
              [] node.op = "Alternation" ->
                    Paths(node.children[1], opened, 0) \o Paths(node.children[2], opened, 0)
              [] OTHER -> IF AssertionHolds(node.op, from.pos) THEN <<from>> ELSE <<>>
    IN  IF capture = -1 THEN inner
        ELSE [k \in 1..Len(inner) |->
                 Path(inner[k].pos, [inner[k].saves EXCEPT ![2 * capture + 2] = inner[k].pos])]

\* the paths given, each continued by the children from the k-th on
PathsSequence(children, k, paths) ==
    IF k > Len(children) THEN paths
    ELSE PathsSequence(children, k + 1, PathsOfAll(children[k], paths, 1, 0))

\* the matches of the node from each of paths[k..], in the order of the paths;
\* count is the number of instances of the node already taken
PathsOfAll(node, paths, k, count) ==
    IF k > Len(paths) THEN <<>>
    ELSE Paths(node, paths[k], count) \o PathsOfAll(node, paths, k + 1, count)

\* the instances of PathsOnce that go on to one more repetition: one that
\* took nothing counts only towards the smallest count
PathsRepeat(node, from, count) ==
    SelectSeq(PathsOnce(node, from),
              LAMBDA p : p.pos > from.pos \/ count < LeastCount(node.quantifier))

\* the matches of the quantified node from the path given, after count
\* instances of it: one more instance first, then none
Paths(node, from, count) ==
    LET lo == LeastCount(node.quantifier)
        hi == MostCount(node.quantifier)
        more == IF hi = Unbounded \/ count < hi
                THEN PathsOfAll(node, PathsRepeat(node, from, count), 1, count + 1)
                ELSE <<>>
    IN  IF count >= lo THEN Append(more, from) ELSE more

\* the matches of the pattern that begin at position i, by priority
MatchesFrom(i) ==
    Paths(Ast, Path(i, [k \in 1..program.save_count |-> NullPos]), 0)

(***************************************************************************)
(* Properties of exec.                                                    *)
(***************************************************************************)
\* exec has returned
Returned == pc = "done"

\* the pattern is built from literals, '.', groups, alternation and quantifiers
PlainCharacters ==
    {"a", "b", ".", "(", ")", "|", "*", "+", "?", "{", "}", ",",
     "0", "1", "2", "3", "4", "5", "6", "7", "8", "9"}

Plain == \A k \in 1..Len(regex) : regex[k] \in PlainCharacters

\* C1: anchored matching is exact: for a pattern of literals, '.', groups,
\* alternation and quantifiers, exec(s, match = true) returns true if and only
\* if the whole of s is in the language of the pattern
AnchoredExact ==
    Returned /\ match /\ ~longest /\ Plain => (result <=> InLanguage)

\* C2: search mode finds the leftmost match: exec(s, match = false,
\* longest = false) returns true exactly when some substring of s matches,
\* and then slot 0 is the smallest position at which a match begins
SearchLeftmost ==
    Returned /\ ~match /\ ~longest =>
        /\ result <=> MatchStarts # {}
        /\ result /\ MatchStarts # {} => m_captures[1] = Min(MatchStarts)

\* C3: search mode breaks ties by priority: when exec(s, match = false,
\* longest = false) succeeds, the match it reports, group 0 and every other
\* capture, is the first by priority of the matches that begin at the start
\* position it reports
SearchPriority ==
    Returned /\ ~match /\ ~longest /\ result =>
        LET matches == MatchesFrom(m_captures[1])
        IN  matches # <<>> => m_captures = Head(matches).saves

\* C4: longest mode returns the longest match at the leftmost position: when
\* some substring of s matches, exec(s, match = false, longest = true) returns
\* true and group 0 spans from the leftmost start to the farthest end of a
\* match that begins there
LongestLeftmost ==
    Returned /\ ~match /\ longest /\ MatchStarts # {} =>
        /\ result
        /\ m_captures[1] = Min(MatchStarts)
        /\ m_captures[2] = Max(Ends(Ast, Min(MatchStarts)))

\* C5: once exec has recorded a match it returns success: failure is returned
\* only when no match was ever recorded
RecordedMatchReturned == Returned /\ found_match => result

\* C7: at every point of every run of exec the thread list holds at most
\* bytecode.size() threads
ThreadsWithinBytecode == Len(m_threads) <= Len(program.bytecode)

\* C6: exec terminates for every compiled program and every input, in every
\* mode: every run of exec comes to its return
ExecTerminates == <>(pc \in {"done", "undefined"})

\* a pair of slots of the recorded match
SlotBegin(k) == m_captures[2 * k + 1]

SlotEnd(k) == m_captures[2 * k + 2]

Groups == 0..((program.save_count \div 2) - 1)

\* C8: whenever exec returns success, the two slots of every group are both
\* null or both set, and the slots set are in order and within the input
SavesPaired ==
    Returned /\ result =>
        \A k \in Groups :
            /\ SlotBegin(k) = NullPos <=> SlotEnd(k) = NullPos
            /\ SlotBegin(k) # NullPos =>
                   /\ m_begin <= SlotBegin(k)
                   /\ SlotBegin(k) <= SlotEnd(k)
                   /\ SlotEnd(k) <= m_end

\* a success in which a group under a quantifier or in an alternation took
\* part with one codepoint or more, and another group did not take part
SavesPairedWitness ==
    /\ Returned /\ result
    /\ \E k \in Groups : SlotBegin(k) = NullPos /\ SlotEnd(k) = NullPos
    /\ \E k \in Groups : k > 0 /\ SlotBegin(k) # NullPos /\ SlotBegin(k) < SlotEnd(k)

\* C9: whenever exec with match = true returns success, in either longest
\* setting, slot 0 is the beginning of the input and slot 1 is its end
AnchoredSpansInput ==
    Returned /\ match /\ result => SlotBegin(0) = m_begin /\ SlotEnd(0) = m_end

\* an anchored success in longest mode on an input of two codepoints or more
AnchoredSpansInputWitness ==
    /\ Returned /\ match /\ longest /\ result
    /\ Len(data) >= 2
    /\ SlotBegin(0) = m_begin /\ SlotEnd(0) = m_end

\* C10: counted quantifiers accept exactly the stated repetition counts:
\* anchored exec on a^k b succeeds for a{n,m}b (0 <= n <= m, 1 <= m) iff
\* n <= k <= m, for a{n}b iff k = n, for a{n,}b iff n <= k, and for a{,m}b
\* iff k <= m
CountedExactly ==
    Returned /\ match =>
        \A k \in 0..(MaxCount + 2) :
            data = Repeated("a", k) \o <<"b">> =>
                /\ \A m \in 1..MaxCount : \A n \in 0..m :
                       regex = CountedMinMax(n, m) => (result <=> n <= k /\ k <= m)
                /\ \A n \in 1..MaxCount :
                       regex = CountedExact(n) => (result <=> k = n)
                /\ \A n \in 0..MaxCount :
                       regex = CountedMin(n) => (result <=> n <= k)
                /\ \A m \in 1..MaxCount :
                       regex = CountedMax(m) => (result <=> k <= m)

\* a{1,2}b has accepted aab
CountedExactlyWitness ==
    /\ Returned /\ match /\ result
    /\ regex = CountedMinMax(1, 2)
    /\ data = Repeated("a", 2) \o <<"b">>


\* C11: a quantifier whose min and max are both 0 matches only the empty
\* string: anchored exec of a{0,0}b, a{0}b and a{,0}b accepts "b" and
\* rejects "ab"
ZeroCountMatchesEmpty ==
    Returned /\ match /\ regex \in ZeroCountPatterns =>
        /\ data = <<"b">> => result
        /\ data = <<"a", "b">> => ~result

(***************************************************************************)
(* The text of a pattern, read without the parser.                         *)
(***************************************************************************)
\* the offset (from 1) of the ']' that closes the character class whose items
\* start at i; Len(re) + 1 when the class is not closed
RECURSIVE ClassClose(_, _)
ClassClose(re, i) ==
    IF i > Len(re) THEN Len(re) + 1
    ELSE IF re[i] = "]" THEN i
    ELSE IF re[i] = "\\" THEN ClassClose(re, i + 2)
    ELSE ClassClose(re, i + 1)

\* the pattern from offset i as tokens: "(", ")", "|" and "x" for an escape, a
\* character class or any other character
RECURSIVE Tokens(_, _)
Tokens(re, i) ==
    IF i > Len(re) THEN <<>>
    ELSE IF re[i] = "\\" THEN <<"x">> \o Tokens(re, i + 2)
    ELSE IF re[i] = "[" THEN <<"x">> \o Tokens(re, ClassClose(re, i + 1) + 1)
    ELSE IF re[i] \in {"(", ")", "|"} THEN <<re[i]>> \o Tokens(re, i + 1)
    ELSE <<"x">> \o Tokens(re, i + 1)

\* the number of opening parentheses among the tokens
OpenParens(toks) == Cardinality({i \in 1..Len(toks) : toks[i] = "("})

\* the nesting depth after the first i tokens
Depth(toks, i) ==
    Cardinality({j \in 1..i : toks[j] = "("}) - Cardinality({j \in 1..i : toks[j] = ")"})

\* every ')' has an earlier '(' of its own and every '(' a later ')'
Balanced(toks) ==
    /\ \A i \in 1..Len(toks) : Depth(toks, i) >= 0
    /\ Depth(toks, Len(toks)) = 0

\* the slots of the parentheses in the order of the text, when the i-th '('
\* from the left opens group i: 2i at the '(' and 2i + 1 at its ')'
RECURSIVE BracketSlots(_, _, _, _)
BracketSlots(toks, i, open, count) ==
    IF i > Len(toks) THEN <<>>
    ELSE IF toks[i] = "("
    THEN <<2 * (count + 1)>> \o BracketSlots(toks, i + 1, <<count + 1>> \o open, count + 1)
    ELSE IF toks[i] = ")" /\ open # <<>>
    THEN <<2 * Head(open) + 1>> \o BracketSlots(toks, i + 1, Tail(open), count)
    ELSE BracketSlots(toks, i + 1, open, count)

\* the capture indices of the groups of an AST, a group before the groups
\* inside it and before the groups to its right
RECURSIVE CaptureValues(_)
RECURSIVE CaptureValuesOfAll(_, _)
CaptureValues(node) ==
    IF node.op \in {"Sequence", "Alternation"}
    THEN (IF node.value # -1 THEN <<node.value>> ELSE <<>>)
             \o CaptureValuesOfAll(node.children, 1)
    ELSE <<>>

CaptureValuesOfAll(children, k) ==
    IF k > Len(children) THEN <<>>
    ELSE CaptureValues(children[k]) \o CaptureValuesOfAll(children, k + 1)

\* the size of the instruction at offset pos of the bytecode
InstructionSize(bytecode, pos) ==
    LET op == bytecode[pos + 1]
    IN  CASE op = Op_Literal -> 1 + utf8_read_codepoint(bytecode, pos + 1).size
          [] op \in {Op_Jump, Op_Split_PrioritizeParent, Op_Split_PrioritizeChild} ->
                1 + OffsetSize
          [] op \in {Op_Save, Op_Matcher} -> 2
          [] OTHER -> 1

\* the operands of the Save instructions of the bytecode from offset pos on
RECURSIVE SaveOperands(_, _)
SaveOperands(bytecode, pos) ==
    IF pos >= Len(bytecode) THEN <<>>
    ELSE (IF bytecode[pos + 1] = Op_Save THEN <<SignedChar(bytecode[pos + 2])>> ELSE <<>>)
             \o SaveOperands(bytecode, pos + InstructionSize(bytecode, pos))

\* C12: capture groups are numbered by the order of their opening
\* parenthesis: a pattern with k groups (balanced parentheses, parsed without
\* error) has capture_count = k + 1 and save_count = 2 * (k + 1), the whole
\* match is group 0 and the i-th '(' from the left opens group i, and the Save
\* instructions of the code are those of the parentheses in the order of the
\* text, 2i at '(' number i and 2i + 1 at its ')' (with a counted quantifier,
\* which copies code, every slot is written and no other)
CaptureNumbering ==
    LET toks == Tokens(regex, 1)
        k == OpenParens(toks)
        saves == SaveOperands(program.bytecode, 0)
    IN  program.error = NoError /\ Balanced(toks) =>
            /\ RegexParser(regex).capture_count = k + 1
            /\ program.save_count = 2 * (k + 1)
            /\ CaptureValues(Ast) = [i \in 1..(k + 1) |-> i - 1]
            /\ IF \E i \in 1..Len(regex) : regex[i] = "{"
               THEN {saves[i] : i \in 1..Len(saves)} = 0..(2 * k + 1)
               ELSE saves = <<0>> \o BracketSlots(toks, 1, <<>>, 0) \o <<1>>

\* a pattern with one group inside another has been parsed and compiled
CaptureNumberingWitness ==
    /\ \E r \in Patterns :
           /\ regex = r
           /\ OpenParens(Tokens(r, 1)) = 2
           /\ SaveOperands(program.bytecode, 0) = <<0, 2, 4, 5, 3, 1>>
    /\ program.save_count = 6

\* the capture indices of the groups of an AST that stand under a repeating
\* quantifier: *, + or {n,m}
RECURSIVE RepeatedGroups(_)
RepeatedGroups(node) ==
    IF node.op \in {"Sequence", "Alternation"}
    THEN (IF /\ node.value # -1
             /\ node.quantifier.type \in
                    {"RepeatZeroOrMore", "RepeatOneOrMore", "RepeatMinMax"}
          THEN {node.value} ELSE {})
             \cup UNION {RepeatedGroups(node.children[k]) : k \in 1..Len(node.children)}
    ELSE {}

\* C13: for a capturing group under a repeating quantifier, when exec
\* succeeds the captures are those of one parse of the reported match, in
\* which the two slots of the group delimit its last iteration in that parse
\* (a parse sets the slots of a group anew at each iteration), not an earlier
\* iteration and not an attempt that was abandoned
LastIterationCaptured ==
    Returned /\ result /\ RepeatedGroups(Ast) # {} =>
        LET matches == MatchesFrom(m_captures[1])
        IN  \E k \in 1..Len(matches) : matches[k].saves = m_captures

\* (a|b)+ has matched "ab" in two iterations and group 1 is the second, "b"
LastIterationCapturedWitness ==
    /\ Returned /\ result
    /\ regex = <<"(", "a", "|", "b", ")", "+">>
    /\ data = <<"a", "b">>
    /\ m_captures = <<0, 2, 1, 2>>

\* the codepoints the matchers are tried on: digits, letters, '_', space,
\* newline and punctuation
TestCodepoints == {Ord[c] : c \in DOMAIN Ord}

\* the matcher of a pattern that is one escape or one character class
MatcherOf(re) == CompileRegex(re).matchers[1]

\* C14: the negated character-class escapes used as atoms invert the
\* predicate: the matcher of \D accepts a codepoint iff it is not a digit and
\* iff the matcher of \d rejects it, and the matcher of \W accepts a codepoint
\* iff it is neither alphanumeric nor '_' and iff the matcher of \w rejects it
NegatedEscapesInvert ==
    /\ regex = <<"\\", "D">> =>
           /\ program.error = NoError
           /\ \A cp \in TestCodepoints :
                  /\ MatcherAccepts(program.matchers[1], cp) <=> ~iswctype(cp, "digit")
                  /\ MatcherAccepts(program.matchers[1], cp)
                         <=> ~MatcherAccepts(MatcherOf(<<"\\", "d">>), cp)
    /\ regex = <<"\\", "W">> =>
           /\ program.error = NoError
           /\ \A cp \in TestCodepoints :
                  /\ MatcherAccepts(program.matchers[1], cp)
                         <=> ~(iswctype(cp, "alnum") \/ cp = Ord["_"])
                  /\ MatcherAccepts(program.matchers[1], cp)
                         <=> ~MatcherAccepts(MatcherOf(<<"\\", "w">>), cp)

\* C15: \S is a recognised character-class escape: a pattern holding \S as an
\* atom parses and its matcher accepts exactly the codepoints that are not
\* space, and inside [...] the item \S stands for the negated space property
NotSpaceRecognised ==
    /\ regex = <<"\\", "S">> =>
           /\ program.error = NoError
           /\ \A cp \in TestCodepoints :
                  MatcherAccepts(program.matchers[1], cp) <=> ~iswctype(cp, "space")
    /\ regex = <<"[", "\\", "S", "]">> =>
           /\ program.error = NoError
           /\ \A cp \in TestCodepoints :
                  MatcherAccepts(program.matchers[1], cp) <=> ~iswctype(cp, "space")

\* C16: unbalanced parentheses are rejected: a pattern that holds a ')' with
\* no earlier '(' of its own, or a '(' with no later ')', ends in a parse
\* error and no program is produced
UnbalancedRejected ==
    ~Balanced(Tokens(regex, 1)) =>
        program.error # NoError /\ program.bytecode = <<>>

\* some alternative of the pattern, read as tokens, has no term: the pattern
\* is empty, starts or ends with '|', or holds "||", "(|", "|)" or "()"
HasEmptyAlternative(toks) ==
    \/ toks = <<>>
    \/ Head(toks) = "|"
    \/ toks[Len(toks)] = "|"
    \/ \E i \in 1..(Len(toks) - 1) :
           toks[i] \in {"(", "|"} /\ toks[i + 1] \in {"|", ")"}

\* C17: empty alternatives are rejected: a pattern in which some alternative
\* has no term (the empty pattern, a||b, (|), (), a leading '|', a trailing
\* '|') ends in a parse error and no program is produced
EmptyAlternativeRejected ==
    HasEmptyAlternative(Tokens(regex, 1)) =>
        program.error # NoError /\ program.bytecode = <<>>

\* both VMs have returned from exec
BothReturned == pc = "done" /\ other.pc = "done"

\* C18: a CompiledRegex can be shared by concurrent executions: no step of
\* exec changes bytecode, matchers or save_count, a step of one VM leaves
\* the members of the other as they were, and when two VMs bound to one
\* program run exec with their steps interleaved in any order, two that were
\* given the same input and flags return the same result and, on success,
\* the same captures, the run that was interrupted as the run that was not
ProgramShared ==
    /\ [][program' = program /\ (other' = other \/ Switch)]_vars
    /\ [](BothReturned /\ data = other.data /\ match = other.match
              /\ longest = other.longest =>
                 /\ result = other.result
                 /\ result => m_captures = other.m_captures)

\* two executions of (a|b)+ on "a" whose steps were interleaved have both
\* succeeded with the same captures
ProgramSharedWitness ==
    /\ BothReturned /\ other.interleaved
    /\ regex = <<"(", "a", "|", "b", ")", "+">>
    /\ data = <<"a">> /\ other.data = <<"a">>
    /\ match = other.match /\ longest = other.longest
    /\ result /\ m_captures = <<0, 1, 0, 1>>

\* the instruction that the step about to be taken looks up among the
\* threads: the target of a Jump, or the instruction add_thread is given by a
\* Split
DedupTarget ==
    CASE Opcode = Op_Jump -> get_offset(program.bytecode, Ip + 1)
      [] Opcode = Op_Split_PrioritizeParent -> get_offset(program.bytecode, Ip + 1)
      [] Opcode = Op_Split_PrioritizeChild -> Ip + 1 + OffsetSize

\* the indices in m_threads of the threads whose inst is that instruction
Holders ==
    {i \in 0..(Len(m_threads) - 1) : WithInst(Ip + 1)[i + 1].inst = DedupTarget}

\* the step about to be taken drops a thread: the Jump check retires the
\* running thread, or add_thread refuses the thread of a Split
Dropping ==
    /\ InStep
    /\ Opcode \in {Op_Jump, Op_Split_PrioritizeParent, Op_Split_PrioritizeChild}
    /\ Holders # {}

\* C19: deduplication is sound with respect to the input position: whenever
\* a thread about to execute instruction X at position p is dropped because
\* another thread's inst is X, some thread that holds X is still to be
\* stepped at p (it follows the running thread in the list); the holders are
\* not all threads that were stepped already, which took the codepoint at p
\* and hold X for p + 1 or, in the final loop, failed
DedupSamePosition ==
    Dropping => \E i \in Holders : i > thread_index

\* C20: deduplication preserves priority: whenever a thread is dropped by
\* add_thread or retired by the Jump check because another thread holds the
\* same inst, a thread that holds it has a smaller index in the thread list
\* than the dropped thread
DedupKeepsPriority ==
    Dropping => \E i \in Holders : i < thread_index

\* no two threads of the list have the same inst
DistinctInsts(threads) ==
    \A i, j \in 1..Len(threads) : i # j => threads[i].inst # threads[j].inst

\* C21: at the end of every round of exec, once all threads were stepped for
\* one input position and the dead threads were removed, no two threads of
\* the list have the same inst, however they came to it: by add_thread, by
\* falling through after a codepoint, or by the target of a
\* Split_PrioritizeChild
RoundEndsDistinct == [][EndRound => DistinctInsts(m_threads')]_vars

\* C22: a successful parse consumes the whole pattern: whenever RegexParser
\* returns a ParsedRegex without error its position is the end of the
\* pattern, so that nothing after a second quantifier (a**) or after a stray
\* ']', '}' or ')' is left out of the AST
ParseConsumesAll ==
    program.error = NoError => RegexParser(regex).pos = Len(regex)

\* the thread has executed Save 0
HasStarted(t) == t.saves # <<>> /\ t.saves[1] # NullPos

\* the thread is inside the search prelude
InPrelude(t) == t.inst # NullInst /\ t.inst < prefix_size

\* C23: in search mode the thread list is ordered by match start: at every
\* point of exec, of two threads that have executed Save 0 the one earlier in
\* the list has the smaller or the same saves[0], and the thread still inside
\* the search prelude is the last of the list
OrderedByStart ==
    Running(pc) /\ ~match =>
        /\ \A i, j \in 1..Len(m_threads) :
               i < j /\ HasStarted(m_threads[i]) /\ HasStarted(m_threads[j]) =>
                   m_threads[i].saves[1] <= m_threads[j].saves[1]
        /\ \A i \in 1..Len(m_threads) : InPrelude(m_threads[i]) => i = Len(m_threads)

\* a search is under way with two threads begun at different positions and
\* the prelude thread after them
OrderedByStartWitness ==
    /\ Running(pc) /\ ~match
    /\ \E i, j \in 1..Len(m_threads) :
           /\ i < j
           /\ HasStarted(m_threads[i]) /\ HasStarted(m_threads[j])
           /\ m_threads[i].inst # NullInst /\ m_threads[j].inst # NullInst
           /\ m_threads[i].saves[1] < m_threads[j].saves[1]
    /\ InPrelude(m_threads[Len(m_threads)])

\* the offsets of the prelude's second Split and of its operand
PreludeLoop == 2 + OffsetSize
PreludeLoopOperand == 3 + OffsetSize

\* C24: in the search prelude the operand of the final Split_PrioritizeParent
\* is offset 0, the first instruction of the program, and the operand of the
\* initial Split_PrioritizeChild is prefix_size, the offset of the first
\* instruction after the prelude
PreludeLoopsToStart ==
    program.error = NoError =>
        /\ program.bytecode[PreludeLoop + 1] = Op_Split_PrioritizeParent
        /\ get_offset(program.bytecode, PreludeLoopOperand) = 0
        /\ program.bytecode[1] = Op_Split_PrioritizeChild
        /\ get_offset(program.bytecode, 1) = prefix_size

\* C24 as amended: the operand of the final Split_PrioritizeParent is
\* 1 + sizeof(Offset), the offset of the prelude's AnyChar, and the operand
\* of the initial Split_PrioritizeChild is prefix_size, where the code of the
\* pattern starts with Save 0
PreludeLoopsToAnyChar ==
    program.error = NoError =>
        /\ program.bytecode[PreludeLoop + 1] = Op_Split_PrioritizeParent
        /\ get_offset(program.bytecode, PreludeLoopOperand) = 1 + OffsetSize
        /\ program.bytecode[1 + OffsetSize + 1] = Op_AnyChar
        /\ program.bytecode[1] = Op_Split_PrioritizeChild
        /\ get_offset(program.bytecode, 1) = prefix_size
        /\ program.bytecode[prefix_size + 1] = Op_Save
        /\ program.bytecode[prefix_size + 2] = 0

\* a search has gone round the prelude: past the first codepoint, a thread
\* added by the final Split waits at the AnyChar
PreludeLoopsToAnyCharWitness ==
    /\ pc = "main" /\ ~match /\ m_pos > 0
    /\ \E i \in 1..Len(m_threads) : m_threads[i].inst = 1 + OffsetSize

\* C25: inside [...] a '-' that forms no range (the first item, the last item
\* before ']', or right after a class escape) adds the codepoint '-' to the
\* class and is no parse error, and the other items keep their meaning
StrayDashIsLiteral ==
    /\ regex \in {<<"[", "-", "a", "]">>, <<"[", "a", "-", "]">>} =>
           /\ program.error = NoError
           /\ \A cp \in TestCodepoints :
                  MatcherAccepts(program.matchers[1], cp) <=> cp \in {Ord["-"], Ord["a"]}
    /\ regex = <<"[", "\\", "d", "-", "a", "]">> =>
           /\ program.error = NoError
           /\ \A cp \in TestCodepoints :
                  MatcherAccepts(program.matchers[1], cp)
                      <=> iswctype(cp, "digit") \/ cp \in {Ord["-"], Ord["a"]}

\* what a class escape inside [...] accepts: the property of its letter with
\* its sign, or one of its additional characters
ClassEscapeAccepts(letter, cp) ==
    CASE letter = "d" -> iswctype(cp, "digit")
      [] letter = "D" -> ~iswctype(cp, "digit")
      [] letter = "w" -> iswctype(cp, "alnum") \/ cp = Ord["_"]
      [] letter = "W" -> ~iswctype(cp, "alnum") \/ cp = Ord["_"]
      [] letter = "s" -> iswctype(cp, "space")
      [] letter = "S" -> ~iswctype(cp, "space")

\* some item of the class, read from offset i of the text to its ']', accepts
\* cp: a range with both ends, a single codepoint, or a class escape
RECURSIVE SomeItemAccepts(_, _, _)
SomeItemAccepts(re, i, cp) ==
    IF i > Len(re) \/ re[i] = "]" THEN FALSE
    ELSE IF re[i] = "\\"
    THEN ClassEscapeAccepts(re[i + 1], cp) \/ SomeItemAccepts(re, i + 2, cp)
    ELSE IF i + 2 <= Len(re) /\ re[i + 1] = "-" /\ re[i + 2] # "]"
    THEN (Ord[re[i]] <= cp /\ cp <= Ord[re[i + 2]]) \/ SomeItemAccepts(re, i + 3, cp)
    ELSE cp = Ord[re[i]] \/ SomeItemAccepts(re, i + 1, cp)

\* C26: the matcher built for a character class returns, for every
\* codepoint, negate XOR (the codepoint lies in some listed range, both ends
\* included, or the property of some listed class escape holds for it with
\* the sign of that escape): the leading '^' is applied once, to the union
\* of all items
ClassMatcherIsUnion ==
    regex \in ClassPatterns =>
        /\ program.error = NoError
        /\ LET negate == regex[2] = "^"
               first == IF negate THEN 3 ELSE 2
           IN  \A cp \in TestCodepoints :
                   MatcherAccepts(program.matchers[1], cp)
                       <=> (negate # SomeItemAccepts(regex, first, cp))

\* C27: exec on a VM that has returned from earlier calls, whatever they were
\* and however they ended, returns what the same call returns on a newly
\* constructed VM, and on success leaves the same captures.
ExecIsFunction ==
    (/\ pc = "done" /\ calls = 1
     /\ other.pc = "done"
     /\ data = other.data /\ match = other.match /\ longest = other.longest)
        => /\ result = other.result
           /\ result => m_captures = other.m_captures

ExecIsFunctionWitness ==
    /\ pc = "done" /\ calls = 1
    /\ other.pc = "done" /\ other.calls > 1
    /\ data = other.data /\ match = other.match /\ longest = other.longest
    /\ result /\ other.result
    /\ \E k \in DOMAIN m_captures : k > 2 /\ m_captures[k] # NullPos

\* the Save instructions the thread has executed
SavesExecuted(t) == Cardinality({k \in DOMAIN t.saves : t.saves[k] # NullPos})

\* the slot of the next Save of a thread that runs through groups written one
\* after the other: 0 opens the whole match, then 2g and 2g + 1 for g = 1, 2,
\* ... in the order of the parentheses, and 1 closes the whole match
ExpectedSlot(t) ==
    IF SavesExecuted(t) = 0 THEN 0
    ELSE IF SavesExecuted(t) = program.save_count - 1 THEN 1
    ELSE SavesExecuted(t) + 1

\* C28: the operand byte of a Save or a Matcher means to the VM what the
\* compiler wrote: the slot step uses for a group's Save is 2g resp. 2g + 1
\* and lies in [0, save_count), and the index step uses for a Matcher is the
\* id the parser gave the class (the k-th class, counted from 0, has id k)
\* and lies in [0, matchers.size()), whatever the number of groups or classes.
OperandsRoundTrip ==
    (compiling = Compiled /\ InStep) =>
        /\ Opcode = Op_Save =>
               /\ SignedChar(program.bytecode[Ip + 2]) = ExpectedSlot(Current)
               /\ SignedChar(program.bytecode[Ip + 2]) \in 0..(program.save_count - 1)
        /\ Opcode = Op_Matcher =>
               /\ SignedChar(program.bytecode[Ip + 2]) = m_pos
               /\ SignedChar(program.bytecode[Ip + 2]) \in 0..(Len(program.matchers) - 1)

=============================================================================
